---- MODULE Spec2Model ----
(***************************************************************************)
(* Asteroid tracker (src/asteroid_tracker.py): the fetch phase, the        *)
(* animation loop and the two geometry functions draw_orbit and            *)
(* calculate_position.                                                     *)
(*                                                                         *)
(* Numbers.  The program computes in IEEE doubles.  Here a semi-major axis *)
(* and an eccentricity are integers in hundredths (Unit), every derived    *)
(* quantity is the exact rational value, and a double is that exact value  *)
(* together with the direction (-1, 0, +1) in which rounding may have      *)
(* moved it.  int() of a double whose exact value is not an integer is the *)
(* truncation of the exact value; when the exact value is an integer the   *)
(* direction decides between that integer and its neighbour towards zero.  *)
(* The functions therefore return the SET of pixel results the float code  *)
(* can produce.                                                            *)
(***************************************************************************)
EXTENDS Integers, Sequences, FiniteSets, TLC

VARIABLES
    pc,              \* position of the main program
    aid_index,       \* number of ASTEROID_IDS entries the fetch loop has taken
    asteroids_data,  \* the list built by the fetch loop
    angles,          \* one running angle per body, in 1/AngleDen rad
    frames,          \* completed iterations of the animation loop
    orbit_params,    \* argument of the geometry functions
    angle_rad,       \* argument of calculate_position: <<cos num, sin num, den>>
    ellipse,         \* what draw_orbit hands to cv2.ellipse
    pos              \* what calculate_position returns

vars == <<pc, aid_index, asteroids_data, angles, frames,
          orbit_params, angle_rad, ellipse, pos>>

progVars == <<pc, aid_index, asteroids_data, angles, frames>>
geomVars == <<orbit_params, angle_rad, ellipse, pos>>

----------------------------------------------------------------------------
(* Configuration *)

Unit == 10 * 10          \* 1.0 as an integer: axes and eccentricities are in hundredths

WIDTH == 1200
HEIGHT == 800
CENTER == <<WIDTH \div 2, HEIGHT \div 2>>
SCALE == 150
ASTEROID_IDS == <<"433", "2000216", "202136">>

----------------------------------------------------------------------------
(* Arithmetic helpers *)

Max(x, y) == IF x >= y THEN x ELSE y
Min(x, y) == IF x <= y THEN x ELSE y
Abs(x) == IF x >= 0 THEN x ELSE -x
Sign(x) == IF x > 0 THEN 1 ELSE IF x < 0 THEN -1 ELSE 0

RECURSIVE GCD(_, _)
GCD(x, y) == IF y = 0 THEN x ELSE GCD(y, x % y)

\* Truncation towards zero of n/d (d > 0), as Python's int() truncates.
Trunc(n, d) == IF n >= 0 THEN n \div d ELSE -((-n) \div d)

\* floor(x*y/q) and "q divides x*y" for x, y >= 0, q > 0, without forming x*y.
FloorMulDiv(x, y, q) == (x \div q) * y + ((x % q) * y) \div q
DividesMul(x, y, q) == ((x % q) * y) % q = 0

RECURSIVE IsqrtBetween(_, _, _)
IsqrtBetween(n, lo, hi) ==
    IF lo >= hi THEN lo
    ELSE LET mid == (lo + hi + 1) \div 2
         IN IF mid * mid <= n THEN IsqrtBetween(n, mid, hi)
            ELSE IsqrtBetween(n, lo, mid - 1)

\* Largest r with r*r <= n.
Isqrt(n) == IsqrtBetween(n, 0, Min(n, 46340))

\* The directions in which a rounded double can lie from the exact value.
RoundDirs == {-1, 0, 1}

\* int(x) for a double x of exact value n/d (d > 0) rounded in direction dir.
IntOf(n, d, dir) ==
    LET q == Trunc(n, d)
    IN IF n % d = 0 /\ q # 0 /\ dir = -Sign(q) THEN q - Sign(q) ELSE q

\* int(x * np.sqrt(y)) for x*x = xsq/q and y = ysq (xsq, ysq >= 0), rounded in
\* direction dir.
IntOfSqrt(xsq, ysq, q, dir) ==
    LET v == FloorMulDiv(xsq, ysq, q)
        r == Isqrt(v)
    IN IF DividesMul(xsq, ysq, q) /\ r * r = v /\ r > 0 /\ dir = -1
       THEN r - 1 ELSE r

\* SCALE pixels per AU is PxNum/PxDen pixels per hundredth of an AU.
PxNum == SCALE \div GCD(SCALE, Unit)
PxDen == Unit \div GCD(SCALE, Unit)

----------------------------------------------------------------------------
(* draw_orbit *)

\* A result is a record whose field raised names the exception that ended the
\* call ("None": it returned).
NoException == "None"
Raise(exc) == [raised |-> exc]
ValueError == Raise("ValueError")
OverflowError == Raise("OverflowError")
NotCalled == Raise("NotCalled")

\* a_pixels after the check of line 114, in 1/PxDen pixels.
DrawOrbitAxis(a) == IF a * PxNum <= 0 THEN Unit * PxNum ELSE a * PxNum

\* Mutation of DrawOrbitEcc: the comparison of line 116 turned round.
DrawOrbitEccFlipped(e) == IF e <= Unit THEN (9 * Unit) \div 10 ELSE e

\* e after the check of line 116.
DrawOrbitEcc(e) == IF e >= Unit THEN (9 * Unit) \div 10 ELSE e

\* np.sqrt of a negative number is nan, and int(nan) at line 124 raises
\* ValueError.
DrawOrbitRaises(params) ==
    LET e == DrawOrbitEcc(params.eccentricity)
    IN Unit * Unit - e * e < 0

\* One run of draw_orbit: da, dc, db are the rounding directions of a_pixels,
\* a_pixels * e and b_pixels.  1.0 * SCALE is exact; with e = 0 the products
\* a_pixels * 0 and a_pixels * sqrt(1) are exact, so b_pixels is a_pixels.
DrawOrbitCall(params, da, dc, db) ==
    LET a_pixels == DrawOrbitAxis(params.semi_major_axis)
        e == DrawOrbitEcc(params.eccentricity)
        dirA == IF params.semi_major_axis * PxNum <= 0 THEN 0 ELSE da
        dirB == IF e = 0 THEN dirA ELSE db
        oneMinusESq == Unit * Unit - e * e
    IN IF DrawOrbitRaises(params) THEN ValueError
       ELSE [raised |-> NoException,
             a_pixels |-> a_pixels,
             e |-> e,
             center |-> <<CENTER[1] + IntOf(a_pixels * e, PxDen * Unit, dc),
                          CENTER[2]>>,
             axes |-> <<IntOf(a_pixels, PxDen, dirA),
                        IntOfSqrt(a_pixels * a_pixels, oneMinusESq,
                                  PxDen * PxDen * Unit * Unit, dirB)>>]

draw_orbit(params) ==
    {DrawOrbitCall(params, d[1], d[2], d[3]) : d \in RoundDirs \X RoundDirs \X RoundDirs}

----------------------------------------------------------------------------
(* calculate_position *)

\* The directions for which cos and sin are rational: <<c, s, d>> is the angle
\* of cosine c/d and sine s/d.
ZeroAngle == <<1, 0, 1>>
PiAngle == <<-1, 0, 1>>
AngleGrid ==
    {ZeroAngle, <<3, 4, 5>>, <<0, 1, 1>>, <<-3, 4, 5>>,
     PiAngle, <<-4, -3, 5>>, <<0, -1, 1>>, <<4, -3, 5>>}

\* a of line 131.
PositionAxis(a) == Max(a, Unit \div 10)

\* Mutation of PositionEcc: the ceiling 1.0 in place of 0.99.
PositionEccOpen(e) == Min(Max(e, 0), Unit)

\* e of line 132.
PositionEcc(e) == Min(Max(e, 0), Unit - 1)

\* Mutation of PositionDenominator: 1 - e * np.cos(angle_rad).
PositionDenominatorMinus(e, angle) == Unit * angle[3] - e * angle[1]

\* 1 + e * np.cos(angle_rad) of line 134, times Unit * angle[3].
PositionDenominator(e, angle) == Unit * angle[3] + e * angle[1]

\* One run of calculate_position; dx, dy are the rounding directions of
\* x * SCALE and y * SCALE.  denom is 1 + e*cos(angle) as <<num, den>>.  A zero
\* denominator gives nan (0/0) or inf under numpy, which int() refuses; the
\* clamp of e keeps D positive.
PositionCall(params, angle, dx, dy) ==
    LET a == PositionAxis(params.semi_major_axis)
        e == PositionEcc(params.eccentricity)
        c == angle[1]
        s == angle[2]
        d == angle[3]
        oneMinusESq == Unit * Unit - e * e
        D == PositionDenominator(e, angle)
        q == PxDen * Unit * D
    IN IF D = 0
       THEN IF oneMinusESq = 0 THEN ValueError ELSE OverflowError
       ELSE [raised |-> NoException,
             a |-> a,
             e |-> e,
             denom |-> <<D, Unit * d>>,
             img |-> <<CENTER[1] + IntOf(a * PxNum * oneMinusESq * c, q, dx),
                       CENTER[2] - IntOf(a * PxNum * oneMinusESq * s, q, dy)>>]

calculate_position(params, angle) ==
    {PositionCall(params, angle, d[1], d[2]) : d \in RoundDirs \X RoundDirs}

----------------------------------------------------------------------------
(* fetch_asteroid_data and create_simulated_asteroid *)

\* What the SBDB request can come back with: a request error, or a JSON body
\* whose orbit fields a, e, i are strings (Missing: the key is absent).
Missing == "<missing>"
AStrs == {Missing, "0.05", "10"}
EStrs == {Missing, "-2", ""}
IStrs == {"10.8", "bad"}
Responses ==
    [failed : {TRUE}, a : {Missing}, e : {Missing}, i : {Missing}]
        \cup [failed : {FALSE}, a : AStrs, e : EStrs, i : IStrs]

\* Python's float() on the strings above, in hundredths; a string outside the
\* table is not a number and float() raises ValueError.
FloatTable ==
    [s \in {"0", "0.05", "10", "-2", "10.8"} |->
        CASE s = "0" -> 0
          [] s = "0.05" -> 5
          [] s = "10" -> 10 * Unit
          [] s = "-2" -> -2 * Unit
          [] s = "10.8" -> 1080]
IsFloat(s) == s \in DOMAIN FloatTable

None == [id |-> "None"]

\* The table of line 75; any other id used by the program ('test') is not a
\* digit string and takes the generic values 2.0, 0.2, 8.0.
simulated_data ==
    [k \in {"433", "2000216", "202136"} |->
        CASE k = "433" -> [a |-> 146, e |-> 23, i |-> 1080]
          [] k = "2000216" -> [a |-> 113, e |-> 20, i |-> 600]
          [] k = "202136" -> [a |-> 120, e |-> 15, i |-> 350]]

create_simulated_asteroid(asteroid_id) ==
    LET data == IF asteroid_id \in DOMAIN simulated_data
                THEN simulated_data[asteroid_id]
                ELSE [a |-> 2 * Unit, e |-> 20, i |-> 8 * Unit]
    IN [id |-> asteroid_id,
        semi_major_axis |-> data.a,
        eccentricity |-> data.e,
        inclination |-> data.i,
        diameter_km |-> "Simulated",
        data_quality |-> "simulated"]

\* The success path of fetch_asteroid_data (lines 33-66); the body carries no
\* physical_parameters, so diameter_km stays "Unknown".
ParseOrbit(asteroid_id, response) ==
    LET a_str == IF response.a = Missing THEN "0" ELSE response.a
        e_str == IF response.e = Missing THEN "0" ELSE response.e
        i_str == IF response.i = Missing THEN "0" ELSE response.i
        converts == /\ (a_str # "" => IsFloat(a_str))
                    /\ (e_str # "" => IsFloat(e_str))
                    /\ (i_str # "" => IsFloat(i_str))
        a == IF ~converts THEN Unit
             ELSE IF a_str # "" THEN FloatTable[a_str] ELSE Unit
        e == IF ~converts THEN Unit \div 10
             ELSE IF e_str # "" THEN FloatTable[e_str] ELSE Unit \div 10
        i == IF ~converts THEN 5 * Unit
             ELSE IF i_str # "" THEN FloatTable[i_str] ELSE 5 * Unit
    IN [id |-> asteroid_id,
        semi_major_axis |-> a,
        eccentricity |-> e,
        inclination |-> i,
        diameter_km |-> "Unknown",
        data_quality |-> IF a > 0 THEN "real" ELSE "simulated"]

\* Mutation of fetch_asteroid_data: a failed request returns None, as the
\* fetch of src/api.py does.
fetch_asteroid_data_none(asteroid_id, response) ==
    IF response.failed THEN None ELSE ParseOrbit(asteroid_id, response)

\* fetch_asteroid_data: the request either raises RequestException, answered
\* with the simulated record, or returns a body that is parsed.
fetch_asteroid_data(asteroid_id, response) ==
    IF response.failed
    THEN create_simulated_asteroid(asteroid_id)
    ELSE ParseOrbit(asteroid_id, response)

----------------------------------------------------------------------------
(* The main program *)

MaxFrames == 2

\* Angles are integers in 1/AngleDen rad; AngleDen is a multiple of every
\* max(a, 0.1) the data can hold, so every increment is exact.
AngleDen == 8 * 3 * 125 * 73 * 113

\* np.random.random() * 2 * np.pi lies in [0, 2 pi): 0 rad and 3 rad.
AngleInits == {0, 3 * AngleDen}

\* Mutation of speed_factor: 0.01 * max(a, 0.1).
speed_factor_times(ast) ==
    (AngleDen \div (Unit * Unit)) * Max(ast.semi_major_axis, Unit \div 10)

\* speed_factor of line 192: 0.01 / max(a, 0.1) rad.
speed_factor(ast) == AngleDen \div Max(ast.semi_major_axis, Unit \div 10)

\* The body at which the for loop of line 177 stops: the first whose draw_orbit
\* raises, or one past the last.
FirstRaising(data) ==
    LET raising == {i \in 1..Len(data) : DrawOrbitRaises(data[i])}
    IN IF raising = {} THEN Len(data) + 1
       ELSE CHOOSE i \in raising : \A j \in raising : i <= j

\* Mutation of AdvanceAngles: every body takes the step of the first.
AdvanceAnglesShared(data, angs, stop) ==
    [i \in 1..Len(data) |->
        IF i < stop THEN angs[i] + speed_factor(data[1]) ELSE angs[i]]

\* angles after the for loop ran bodies 1 .. stop-1 to line 193.
AdvanceAngles(data, angs, stop) ==
    [i \in 1..Len(data) |->
        IF i < stop THEN angs[i] + speed_factor(data[i]) ELSE angs[i]]

Init ==
    /\ pc = "fetch"
    /\ aid_index = 0
    /\ asteroids_data = <<>>
    /\ angles = <<>>
    /\ frames = 0
    /\ orbit_params = [semi_major_axis |-> 0, eccentricity |-> 0]
    /\ angle_rad = ZeroAngle
    /\ ellipse = NotCalled
    /\ pos = NotCalled

\* One iteration of the loop of lines 145-153.
FetchOne ==
    /\ pc = "fetch"
    /\ aid_index < Len(ASTEROID_IDS)
    /\ \E response \in Responses :
         LET data == fetch_asteroid_data(ASTEROID_IDS[aid_index + 1], response)
         IN asteroids_data' = IF data # None THEN Append(asteroids_data, data)
                              ELSE asteroids_data
    /\ aid_index' = aid_index + 1
    /\ UNCHANGED <<pc, angles, frames, geomVars>>

\* Lines 155-162: the empty-list fallback and the random starting angles.
StartAnimation ==
    /\ pc = "fetch"
    /\ aid_index = Len(ASTEROID_IDS)
    /\ LET data == IF asteroids_data = <<>>
                   THEN <<create_simulated_asteroid("test")>>
                   ELSE asteroids_data
       IN /\ asteroids_data' = data
          /\ angles' \in [1..Len(data) -> AngleInits]
    /\ pc' = "animate"
    /\ UNCHANGED <<aid_index, frames, geomVars>>

\* One iteration of the while loop of lines 165-224: every body is drawn and
\* its angle advanced, the frame is shown and the key read.  An exception from
\* draw_orbit ends the program inside the for loop.
Frame ==
    /\ pc = "animate"
    /\ frames < MaxFrames
    /\ LET stop == FirstRaising(asteroids_data)
       IN /\ angles' = AdvanceAngles(asteroids_data, angles, stop)
          /\ IF stop <= Len(asteroids_data)
             THEN pc' = "crashed" /\ frames' = frames
             ELSE /\ frames' = frames + 1
                  /\ \E key \in {"q", "other"} :
                       pc' = IF key = "q" THEN "closed" ELSE "animate"
    /\ UNCHANGED <<aid_index, asteroids_data, geomVars>>

Next == FetchOne \/ StartAnimation \/ Frame

Spec == Init /\ [][Next]_vars

----------------------------------------------------------------------------
(* The geometry functions on their own: every pair of orbital elements of   *)
(* the grids, every direction of AngleGrid.                                  *)

AxisGrid == {-100, 0, 5, 10, 100, 113, 146, 250}
EccGrid == {-200, -100, -50, 0, 20, 23, 50, 80, 90, 99, 100, 150}

GeomInit ==
    /\ pc = "geometry"
    /\ aid_index = 0
    /\ asteroids_data = <<>>
    /\ angles = <<>>
    /\ frames = 0
    /\ orbit_params \in [semi_major_axis : AxisGrid, eccentricity : EccGrid]
    /\ angle_rad \in AngleGrid
    /\ ellipse = NotCalled
    /\ pos = NotCalled

CallDrawOrbit ==
    /\ pc = "geometry"
    /\ ellipse = NotCalled
    /\ ellipse' \in draw_orbit(orbit_params)
    /\ UNCHANGED <<progVars, orbit_params, angle_rad, pos>>

CallCalculatePosition ==
    /\ pc = "geometry"
    /\ pos = NotCalled
    /\ pos' \in calculate_position(orbit_params, angle_rad)
    /\ UNCHANGED <<progVars, orbit_params, angle_rad, ellipse>>

GeomNext == CallDrawOrbit \/ CallCalculatePosition

GeomSpec == GeomInit /\ [][GeomNext]_vars

----------------------------------------------------------------------------
(* Properties of the geometry functions (GeomSpec) *)

A_in == orbit_params.semi_major_axis
E_in == orbit_params.eccentricity

\* k is int(x) for a double x of exact value n/d (d > 0): the truncation towards
\* zero, or its neighbour towards zero when n/d is itself an integer.
ConvertsTo(k, n, d) ==
    IF n >= 0 THEN k >= 0 /\ k * d <= n /\ n <= (k + 1) * d
    ELSE k <= 0 /\ k * d >= n /\ n >= (k - 1) * d

\* k is int(x * sqrt(y)) for x*x = xsq/q and y = ysq.
SqrtConvertsTo(k, xsq, ysq, q) ==
    LET v == FloorMulDiv(xsq, ysq, q)
    IN /\ k >= 0
       /\ k * k <= v
       /\ \/ v < (k + 1) * (k + 1)
          \/ v = (k + 1) * (k + 1) /\ DividesMul(xsq, ysq, q)

\* C1: draw_orbit and calculate_position finish without raising for every
\* semi-major axis, eccentricity and angle, and every pixel quantity they
\* derive is an integer.
C1_GeometryTotal ==
    /\ ellipse # NotCalled =>
         /\ ellipse.raised = NoException
         /\ ellipse.center \in Int \X Int
         /\ ellipse.axes \in Int \X Int
    /\ pos # NotCalled =>
         /\ pos.raised = NoException
         /\ pos.img \in Int \X Int

\* C2: at both call sites the eccentricity used lies in [0, 0.99]; an input
\* >= 1 becomes 0.9 in draw_orbit and 0.99 in calculate_position.
C2_EccentricityUsedInRange ==
    /\ ellipse.raised = NoException =>
         /\ ellipse.e \in 0..(Unit - 1)
         /\ (E_in >= Unit => ellipse.e = (9 * Unit) \div 10)
    /\ pos.raised = NoException =>
         /\ pos.e \in 0..(Unit - 1)
         /\ (E_in >= Unit => pos.e = Unit - 1)

\* C3: for every input (a, e) draw_orbit draws centre (CENTER.x + a'*e',
\* CENTER.y) and radii (a', a'*sqrt(1 - e'^2)) converted to integers, where
\* a' = a*SCALE if that is positive, else 1.0*SCALE, and e' = 0.9 if e >= 1,
\* else e.
C3_OutlineFromSanitizedElements ==
    ellipse # NotCalled =>
        LET a1 == IF A_in * SCALE > 0 THEN A_in ELSE Unit
            e1 == IF E_in >= Unit THEN (9 * Unit) \div 10 ELSE E_in
        IN /\ ellipse.raised = NoException
           /\ ellipse.center[2] = CENTER[2]
           /\ ConvertsTo(ellipse.center[1] - CENTER[1], a1 * SCALE * e1, Unit * Unit)
           /\ ConvertsTo(ellipse.axes[1], a1 * SCALE, Unit)
           /\ SqrtConvertsTo(ellipse.axes[2], (a1 * PxNum) * (a1 * PxNum),
                             Unit * Unit - e1 * e1, PxDen * PxDen * Unit * Unit)

\* C4: calculate_position uses the axis max(a, 0.1) and the eccentricity
\* min(max(e, 0), 0.99), returns, and divides by a denominator
\* 1 + e*cos(angle) that is at least 0.01.
C4_PositionClampsAndDenominator ==
    pos # NotCalled =>
        /\ pos.raised = NoException
        /\ pos.a >= A_in /\ pos.a >= Unit \div 10 /\ pos.a \in {A_in, Unit \div 10}
        /\ pos.e \in 0..(Unit - 1)
        /\ \/ pos.e = E_in
           \/ E_in < 0 /\ pos.e = 0
           \/ E_in > Unit - 1 /\ pos.e = Unit - 1
        /\ pos.denom[2] > 0
        /\ Unit * pos.denom[1] >= pos.denom[2]

\* C4 witness: a floored axis, a clamped eccentricity and the angle pi, where
\* the denominator is exactly 0.01.
C4_Witness ==
    /\ pos.raised = NoException
    /\ A_in < Unit \div 10
    /\ E_in >= Unit
    /\ angle_rad = PiAngle
    /\ Unit * pos.denom[1] = pos.denom[2]

\* C5 as stated: for a > 0 and e in [0, 0.99] the point at angle 0 has
\* x = CENTER.x + a*(1-e)*SCALE rounded to the nearest integer and
\* y = CENTER.y; a = 1.46, e = 0.23 gives (769, 400).  (A double one rounding
\* error below an exact integer is let through.)
C5_PeriapsisRounded ==
    (pos.raised = NoException /\ angle_rad = ZeroAngle
        /\ A_in > 0 /\ E_in \in 0..(Unit - 1)) =>
        LET n == A_in * (Unit - E_in) * SCALE
            d == Unit * Unit
            x == pos.img[1] - CENTER[1]
        IN /\ pos.img[2] = CENTER[2]
           /\ \/ 2 * Abs(x * d - n) <= d
              \/ n % d = 0 /\ x = (n \div d) - 1
           /\ (A_in = 146 /\ E_in = 23 => pos.img = <<769, 400>>)

\* C5 amended: for a > 0 and e in [0, 0.99] the point at angle 0 has
\* x = CENTER.x + int(max(a, 0.1)*(1-e)*SCALE), truncated towards zero (one
\* less when the product is an exact integer and the double falls just below
\* it), and y = CENTER.y; a = 1.46, e = 0.23 gives (768, 400).
C5_PeriapsisTruncated ==
    (pos.raised = NoException /\ angle_rad = ZeroAngle
        /\ A_in > 0 /\ E_in \in 0..(Unit - 1)) =>
        LET n == Max(A_in, Unit \div 10) * (Unit - E_in) * SCALE
            d == Unit * Unit
            x == pos.img[1] - CENTER[1]
        IN /\ pos.img[2] = CENTER[2]
           /\ \/ x = n \div d
              \/ n % d = 0 /\ x = (n \div d) - 1
           /\ (A_in = 146 /\ E_in = 23 => pos.img = <<768, 400>>)

\* C5 witness: the worked example, computed.
C5_Witness ==
    /\ pos.raised = NoException
    /\ angle_rad = ZeroAngle
    /\ A_in = 146 /\ E_in = 23
    /\ pos.img = <<768, 400>>

\* C7: with eccentricity 0 draw_orbit draws a circle centred on the sun, for
\* every semi-major axis, substituted or not.
C7_CircleWhenEccentricityZero ==
    (ellipse # NotCalled /\ E_in = 0) =>
        /\ ellipse.raised = NoException
        /\ ellipse.axes[1] = ellipse.axes[2]
        /\ ellipse.center = CENTER

\* C7 witness: a non-positive axis with e = 0 drawn as the circle of 1.0 AU.
C7_Witness ==
    /\ ellipse.raised = NoException
    /\ E_in = 0
    /\ A_in <= 0
    /\ ellipse.axes = <<SCALE, SCALE>>
    /\ ellipse.center = CENTER

\* C10: for a > 0 and 0 <= e < 1 with no sanitization triggered at either
\* call site (so a >= 0.1), at angle 0 and at angle pi the marker of
\* calculate_position lies on the outline of draw_orbit: its y is the
\* outline's centre y and its x is within one pixel of centerX - semiMajorPx
\* or of centerX + semiMajorPx.
C10_MarkerOnOutline ==
    (ellipse.raised = NoException /\ pos.raised = NoException
        /\ A_in > 0 /\ A_in >= Unit \div 10 /\ E_in \in 0..(Unit - 1)
        /\ angle_rad \in {ZeroAngle, PiAngle}) =>
        /\ pos.img[2] = ellipse.center[2]
        /\ \/ Abs(pos.img[1] - (ellipse.center[1] - ellipse.axes[1])) <= 1
           \/ Abs(pos.img[1] - (ellipse.center[1] + ellipse.axes[1])) <= 1

----------------------------------------------------------------------------
(* Properties of the main program (Spec) *)

Bodies == 1..Len(asteroids_data)
Delta(i) == angles'[i] - angles[i]
Floored(i) == Max(asteroids_data[i].semi_major_axis, Unit \div 10)
\* d is exactly 0.01 / max(a_i, 0.1) rad.
IsOwnStep(i, d) == AngleDen % Floored(i) = 0 /\ d = AngleDen \div Floored(i)

\* C6 as stated: the increment is 0.01 / max(a, 0.1), and of two bodies
\* advanced in a frame the one with the larger axis gets the strictly smaller
\* increment.
C6_StrictlySlowerWithLargerAxis ==
    [][pc = "animate" =>
        \A i, j \in Bodies :
            (Delta(i) # 0 /\ Delta(j) # 0) =>
                /\ IsOwnStep(i, Delta(i))
                /\ (asteroids_data[i].semi_major_axis < asteroids_data[j].semi_major_axis
                      => Delta(j) < Delta(i))]_vars

\* C6 amended: the increment is 0.01 / max(a, 0.1); of two bodies a1 < a2
\* advanced in a frame the one with axis a2 gets the strictly smaller increment
\* when a2 > 0.1 and the same increment when a2 <= 0.1 (both are floored).
C6_SlowerAboveTheFloor ==
    [][pc = "animate" =>
        \A i, j \in Bodies :
            (Delta(i) # 0 /\ Delta(j) # 0) =>
                /\ IsOwnStep(i, Delta(i))
                /\ (asteroids_data[i].semi_major_axis < asteroids_data[j].semi_major_axis
                      => IF asteroids_data[j].semi_major_axis > Unit \div 10
                         THEN Delta(j) < Delta(i)
                         ELSE Delta(j) = Delta(i))]_vars

\* C6 witness: a frame has advanced two floored bodies (a = 0 and a = 0.05)
\* and a body of 10 AU.
C6_Witness ==
    /\ pc = "animate"
    /\ frames >= 1
    /\ Len(asteroids_data) = 3
    /\ asteroids_data[1].semi_major_axis = 0
    /\ asteroids_data[2].semi_major_axis = 5
    /\ asteroids_data[3].semi_major_axis = 10 * Unit
    /\ angles[1] = angles[2]
    /\ angles[3] \notin AngleInits /\ angles[3] < angles[1]

\* C8: on every frame each tracked body's angle is increased exactly once by
\* 0.01 / max(a_i, 0.1), computed from that body's own axis, so every angle
\* strictly increases and is never wrapped or reset, and the orbital records
\* never change once the loop runs.
C8_EachAngleAdvancesByItsOwnStep ==
    [][pc = "animate" =>
        /\ asteroids_data' = asteroids_data
        /\ Len(angles') = Len(angles)
        /\ \A i \in Bodies : IsOwnStep(i, Delta(i))]_vars

\* What is left of C8 when draw_orbit raises inside the for loop: no step
\* lowers an angle, a body that is advanced takes its own step, a frame that
\* reaches the display has advanced every body, and the records never change.
CompletedFrameAdvancesEachAngle ==
    [][pc = "animate" =>
        /\ asteroids_data' = asteroids_data
        /\ Len(angles') = Len(angles)
        /\ \A i \in Bodies :
             /\ angles'[i] >= angles[i]
             /\ (Delta(i) # 0 => IsOwnStep(i, Delta(i)))
             /\ (frames' = frames + 1 => Delta(i) > 0)]_vars

\* Two frames done on bodies of different axes, each angle two of
\* its own steps beyond a starting angle.
TwoFramesDone ==
    /\ frames = 2
    /\ Len(asteroids_data) = 3
    /\ asteroids_data[1].semi_major_axis = 146
    /\ asteroids_data[2].semi_major_axis = 5
    /\ asteroids_data[3].semi_major_axis = 10 * Unit
    /\ \A i \in Bodies :
         angles[i] - 2 * (AngleDen \div Floored(i)) \in AngleInits

\* C9: a failed request yields a record tagged simulated, never None, so the
\* fetch loop appends exactly one record per id, in order; when the animation
\* loop starts asteroids_data is not empty, matches ASTEROID_IDS and angles has
\* its length.
C9_OneRecordPerId ==
    /\ \A k \in DOMAIN asteroids_data :
         /\ asteroids_data[k].id = ASTEROID_IDS[k]
         /\ (asteroids_data[k].diameter_km = "Simulated"
               => asteroids_data[k].data_quality = "simulated")
    /\ pc = "fetch" => Len(asteroids_data) = aid_index
    /\ pc \in {"animate", "crashed", "closed"} =>
         /\ asteroids_data # <<>>
         /\ Len(asteroids_data) = Len(ASTEROID_IDS)
         /\ Len(angles) = Len(asteroids_data)

\* C9 witness: the loop has started on a mix of failed and successful fetches.
C9_Witness ==
    /\ pc = "animate"
    /\ Len(asteroids_data) = 3
    /\ asteroids_data[1].diameter_km = "Simulated"
    /\ asteroids_data[2].data_quality = "real"
    /\ asteroids_data[3].diameter_km = "Simulated"

====
